---- MODULE Spec2Model ----
(***************************************************************************)
(* Refresh loop of the Anker Solix monitor firmware (src/src/main.cpp):    *)
(* loop() polls the touch controller, decides whether a fetch is due,      *)
(* calls fetchAnkerData or fetchSmartmeterData and redraws the screen.     *)
(*                                                                         *)
(* Representation                                                          *)
(*  - a uint32_t is a pair <<hi, lo>> of 16-bit halves, so that the        *)
(*    arithmetic modulo 2^32 of millis() and lastUpdate keeps its width;   *)
(*  - a float is <<>> (NaN) or <<v>> with v an integer;                    *)
(*  - a JSON member is [present |-> BOOLEAN, num |-> Int], a JSON array a  *)
(*    sequence of integers (a missing array has size 0, as a null          *)
(*    JsonArray has);                                                      *)
(*  - the variables of loop() that are declared inside a scope keep the    *)
(*    value last written until the code initialises them again;            *)
(*  - a pixel ordinate computed in float and stored in an int is the       *)
(*    exact quotient truncated; a float ordinate of the sketch is the      *)
(*    exact fraction <<numerator, denominator>>.                           *)
(*                                                                         *)
(* The repository also holds a Processing sketch of the same screen        *)
(* (src/unnamed/part_001), a program of its own with its own drawGraph;    *)
(* its state is generation, consumption and canvas.                        *)
(***************************************************************************)
EXTENDS Integers, Sequences, FiniteSets, TLC

(***************************************************************************)
(* Program constants                                                       *)
(***************************************************************************)
REFRESH_INTERVAL_MS == 300000
POINTS_PER_DAY == 24
REFRESH_BTN_X == 230
REFRESH_BTN_Y == 200
REFRESH_BTN_W == 80
REFRESH_BTN_H == 30
HTTP_CODE_OK == 200
DELAY_MS == 100
EPOCH_VALID == 100000
PORTRAIT_HEIGHT == 320

\* graph geometry of drawGraph in the firmware
x0 == 10
y0 == 20
graphWidth == 300
graphHeight == 130

\* graph geometry of drawGraph in the Processing sketch (x0, y0, gw, gh)
graphX == 40
graphY == 8
gw == 270
gh == 120

MODE_ANKER_CLOUD == "MODE_ANKER_CLOUD"
MODE_LOCAL_SMARTMETER == "MODE_LOCAL_SMARTMETER"

(***************************************************************************)
(* Bounds of the model                                                     *)
(***************************************************************************)
\* number of loop() iterations explored by Spec
MaxIter == 4

(***************************************************************************)
(* uint32_t arithmetic on <<hi, lo>> pairs                                 *)
(***************************************************************************)
W16 == 2^16

ToU32(n) == <<(n \div W16) % W16, n % W16>>

Add32(a, b) ==
  LET lo == a[2] + b[2]
      hi == a[1] + b[1] + (lo \div W16)
  IN  <<hi % W16, lo % W16>>

Sub32(a, b) ==
  LET lo == a[2] - b[2]
      hi == a[1] - b[1] - (IF lo < 0 THEN 1 ELSE 0)
  IN  <<hi % W16, lo % W16>>

\* a + b without reduction: the high half is not cut off
AddExact(a, b) ==
  LET lo == a[2] + b[2]
  IN  <<a[1] + b[1] + (lo \div W16), lo % W16>>

Geq32(a, b) == a[1] > b[1] \/ (a[1] = b[1] /\ a[2] >= b[2])

Zero32 == ToU32(0)

\* conversion of a uint16_t touch coordinate to int16_t
ToInt16(v) == ((v + 32768) % W16) - 32768

(***************************************************************************)
(* Floats, JSON members, curves                                            *)
(***************************************************************************)
NAN == <<>>

isnan(f) == f = <<>>

\* a variant that falls back to 0 instead of NAN
MemberOrNaN_Zero(m) == IF m.present THEN <<m.num>> ELSE <<0>>

\* energyDoc["member"] | NAN
MemberOrNaN(m) == IF m.present THEN <<m.num>> ELSE NAN

Num(v) == [present |-> TRUE, num |-> v]
Absent == [present |-> FALSE, num |-> 0]

\* std::vector<float>(POINTS_PER_DAY, 0.0f)
ZeroCurve == [i \in 1..POINTS_PER_DAY |-> 0]

(***************************************************************************)
(* Inputs: what the environment can hand to the program                    *)
(***************************************************************************)
\* millis() at the first call of loop(): the delays of setup() have passed
BootMillis == 100 + 1000 + 10000

\* how long one iteration of loop() takes, delay(100) included; the long
\* value lets millis() wrap around within a few iterations
HalfWrap == 2147483647 - 5549
Durations == {DELAY_MS, REFRESH_INTERVAL_MS - DELAY_MS, HalfWrap}

\* raw (portrait) touch points; after the transform of loop() they are
\* pInMin -> (230,200), pInMax -> (310,230), pOutL -> (229,200),
\* pOutR -> (311,230), pOutT -> (230,199), pOutB -> (310,231)
pInMin == [x |-> 120, y |-> 230]
pInMax == [x |-> 90, y |-> 310]
pOutL == [x |-> 120, y |-> 229]
pOutR == [x |-> 90, y |-> 311]
pOutT == [x |-> 121, y |-> 230]
pOutB == [x |-> 89, y |-> 310]
TouchPolls ==
  {<<>>, <<pInMin>>, <<pOutT, pInMax>>, <<pOutL, pOutR>>, <<pOutB>>}

\* values of time(nullptr) seen by updateTimestamp()
EpochSamples == {99999, 100000, 186399}

\* the values a response carries; responses 1 and 2 are in range and
\* differ everywhere, response 3 is out of the ranges of the data model
BatteryOf(r) == CASE r = 1 -> 78 [] r = 2 -> 55 [] OTHER -> 150
DailyGenOf(r) == CASE r = 1 -> 4 [] r = 2 -> 7 [] OTHER -> -1
DailyConsOf(r) == CASE r = 1 -> 3 [] r = 2 -> 9 [] OTHER -> -2
GenArr(r, n) == [i \in 1..n |-> IF r = 3 THEN -i ELSE r * i]
ConsArr(r, n) == [i \in 1..n |-> IF r = 3 THEN i - 30 ELSE r * (n + 1 - i) + 1]

EnergyDoc(r, missing, glen, clen) ==
  [battery_percent |->
     IF "battery_percent" \in missing THEN Absent ELSE Num(BatteryOf(r)),
   daily_generation |->
     IF "daily_generation" \in missing THEN Absent ELSE Num(DailyGenOf(r)),
   daily_consumption |->
     IF "daily_consumption" \in missing THEN Absent ELSE Num(DailyConsOf(r)),
   generation_curve |-> GenArr(r, glen),
   consumption_curve |-> ConsArr(r, clen)]

ScalarNames == {"battery_percent", "daily_generation", "daily_consumption"}

MismatchLens ==
  {<<POINTS_PER_DAY, POINTS_PER_DAY - 1>>, <<POINTS_PER_DAY - 1, POINTS_PER_DAY>>,
   <<0, POINTS_PER_DAY>>, <<POINTS_PER_DAY + 1, POINTS_PER_DAY + 1>>, <<0, 0>>}

EnergyDocs ==
  {EnergyDoc(r, {}, POINTS_PER_DAY, POINTS_PER_DAY) : r \in 1..3}
  \cup {EnergyDoc(1, m, POINTS_PER_DAY, POINTS_PER_DAY) :
          m \in (SUBSET ScalarNames) \ {{}}}
  \cup {EnergyDoc(2, {}, l[1], l[2]) : l \in MismatchLens}

NullDoc == EnergyDoc(1, ScalarNames, 0, 0)

\* before the first energy response
NoResponse == [code |-> 0, wellformed |-> FALSE, doc |-> NullDoc]

\* (status, body) of the energy GET; a negative status is a transport error
EnergyResponses ==
  {[code |-> c, wellformed |-> FALSE, doc |-> NullDoc] : c \in {404, -1, HTTP_CODE_OK}}
  \cup {[code |-> HTTP_CODE_OK, wellformed |-> TRUE, doc |-> d] : d \in EnergyDocs}

\* (status, body) of the authentication POST
AuthResponses ==
  {[code |-> HTTP_CODE_OK, wellformed |-> TRUE, hasToken |-> TRUE],
   [code |-> HTTP_CODE_OK, wellformed |-> TRUE, hasToken |-> FALSE],
   [code |-> HTTP_CODE_OK, wellformed |-> FALSE, hasToken |-> FALSE],
   [code |-> 401, wellformed |-> TRUE, hasToken |-> FALSE],
   [code |-> -1, wellformed |-> FALSE, hasToken |-> FALSE]}

\* before the first answer to the POST
NoAuth == [code |-> 0, wellformed |-> FALSE, hasToken |-> FALSE]

\* the endpoint strings of secrets.h: empty as in the template, or set
SecretsOf(mode) ==
  IF mode = MODE_ANKER_CLOUD
  THEN {[ANKER_AUTH_URL |-> a, ANKER_ENERGY_URL |-> e,
         SMARTMETER_HOST |-> "", SMARTMETER_ENERGY_ENDPOINT |-> ""] :
          a \in {"", "https://auth"}, e \in {"", "https://energy"}}
  ELSE {[ANKER_AUTH_URL |-> "", ANKER_ENERGY_URL |-> "",
         SMARTMETER_HOST |-> h, SMARTMETER_ENERGY_ENDPOINT |-> p] :
          h \in {"", "192.168.0.50"}, p \in {"", "/api/daily"}}

(***************************************************************************)
(* State                                                                   *)
(***************************************************************************)
VARIABLES
  HAS_TOUCH,       \* compile-time switch, 0 or 1
  currentMode,     \* Mode currentMode
  secrets,         \* the strings of secrets.h
  clock,           \* millis()
  lastUpdate,      \* static uint32_t lastUpdate of loop()
  lastUpdateStr,   \* String lastUpdateStr
  pc,              \* where loop() is: "loop", "polled", "auth_post",
                   \* "energy_get", "meter_get", "delay"
  now,             \* uint32_t now of loop()
  points,          \* the points returned by touch.getPoints()
  forceRefresh,    \* bool forceRefresh of loop()
  batteryPercent,  \* the five outputs of the fetch, locals of loop()
  dailyGen,
  dailyCons,
  genCurve,
  consCurve,
  ok,              \* bool ok of loop()
  energy,          \* status and parsed body of the last energy response
  fetchStarted,    \* history: this iteration of loop() called a fetch
  transport,       \* the HTTP calls made by the current fetch, in order
  screen,          \* what the TFT shows
  iter,            \* number of iterations of loop() begun
  attempted,       \* history: a fetch has been attempted
  inFlight,        \* history: fetch calls entered and not yet returned
  lastGood,        \* history: the store drawn by the last successful fetch
  auth,            \* status and parsed body of the answer to the POST
                   \* received in this iteration
  nowT,            \* time_t nowT of updateTimestamp() in this iteration
  called,          \* history: the fetch function loop() called last
  lastOutcome,     \* history: what the last fetch call returned
  generation,      \* sketch: float[] generation
  consumption,     \* sketch: float[] consumption
  canvas,          \* sketch: what the window shows
  tft,             \* the text settings of TFT_eSPI tft
  redrawn,         \* history: the data view now shown has been drawn
                   \* more than once in a row
  elapsed          \* history: the milliseconds that have passed since the
                   \* millis() kept in lastUpdate was read, not reduced
                   \* modulo 2^32 (<<hi, lo>> with hi unbounded)

vars ==
  <<HAS_TOUCH, currentMode, secrets, clock, lastUpdate, lastUpdateStr, pc,
    now, points, forceRefresh, batteryPercent, dailyGen, dailyCons,
    genCurve, consCurve, ok, energy, transport, screen, iter, attempted,
    fetchStarted, inFlight, lastGood, auth, nowT, called, lastOutcome,
    generation, consumption, canvas, tft, redrawn, elapsed>>

\* the state of the Processing sketch, which the firmware never touches
sketchVars == <<generation, consumption, canvas>>

config == <<HAS_TOUCH, currentMode, secrets>>
pollVars == <<now, points, forceRefresh>>
outputs == <<batteryPercent, dailyGen, dailyCons, genCurve, consCurve>>

\* the store as the loop holds it
Store(b, g, c, gc, cc) ==
  [batteryPercent |-> b, dailyGen |-> g, dailyCons |-> c,
   genCurve |-> gc, consCurve |-> cc]

CurrentStore == Store(batteryPercent, dailyGen, dailyCons, genCurve, consCurve)

\* lines 240-244: the outputs as initialised before every fetch
InitialStore == Store(NAN, NAN, NAN, ZeroCurve, ZeroCurve)

\* the decimal digits of a natural number, as printf writes them
Digit(d) ==
  CASE d = 0 -> "0" [] d = 1 -> "1" [] d = 2 -> "2" [] d = 3 -> "3"
    [] d = 4 -> "4" [] d = 5 -> "5" [] d = 6 -> "6" [] d = 7 -> "7"
    [] d = 8 -> "8" [] OTHER -> "9"

RECURSIVE Digits(_)
Digits(n) == IF n < 10 THEN Digit(n) ELSE Digits(n \div 10) \o Digit(n % 10)

RECURSIVE NumDigits(_)
NumDigits(n) == IF n < 10 THEN 1 ELSE 1 + NumDigits(n \div 10)

RECURSIVE Spaces(_)
Spaces(n) == IF n <= 0 THEN "" ELSE " " \o Spaces(n - 1)

\* sprintf "%5.<decimals>f" of a float with an integer value: sign, digits,
\* point and zeros, padded on the left to five characters
SprintfFloat5(v, decimals) ==
  LET mag == IF v < 0 THEN -v ELSE v
      width == (IF v < 0 THEN 1 ELSE 0) + NumDigits(mag) + 1 + decimals
  IN  Spaces(5 - width) \o (IF v < 0 THEN "-" ELSE "") \o Digits(mag)
        \o "." \o (IF decimals = 1 THEN "0" ELSE "00")

\* drawNumbers, lines 382-406: the three value texts
drawNumbers(batteryPercent_, dailyGeneration, dailyConsumption) ==
  [battery |-> IF isnan(batteryPercent_) THEN "-- %"
               ELSE SprintfFloat5(batteryPercent_[1], 1) \o " %",
   generated |-> IF isnan(dailyGeneration) THEN "-- kWh"
                 ELSE SprintfFloat5(dailyGeneration[1], 2) \o " kWh",
   consumed |-> IF isnan(dailyConsumption) THEN "-- kWh"
                ELSE SprintfFloat5(dailyConsumption[1], 2) \o " kWh"]

\* max(a, b)
Max2(a, b) == IF a >= b THEN a ELSE b

\* ceiling of a / b for b > 0
CeilDiv(a, b) == -((-a) \div b)

\* drawGraph, lines 316-319: the loop over the samples, from index i on
RECURSIVE MaxLoop(_, _, _, _)
MaxLoop(maxVal, genData, consData, i) ==
  IF i > Len(genData) THEN maxVal
  ELSE MaxLoop(Max2(Max2(maxVal, genData[i]), consData[i]),
               genData, consData, i + 1)

\* drawGraph, lines 320-322: if (maxVal < 1.0f) maxVal = 1.0f
AtLeastOne(maxVal) == IF maxVal < 1 THEN 1 ELSE maxVal

\* a variant that looks at the generation series only
ScaleMax_GenOnly(genData, consData) ==
  AtLeastOne(MaxLoop(0, genData, genData, 1))

\* drawGraph, lines 315-322: the value the curves are scaled to
ScaleMax(genData, consData) ==
  AtLeastOne(MaxLoop(0, genData, consData, 1))

\* a variant that rounds the quotient down before it is subtracted
YPixel_QuotientFirst(v, maxVal) ==
  y0 + graphHeight - (v * graphHeight) \div maxVal

\* a variant that measures the ordinate from the top of the frame
YPixel_FromTop(v, maxVal) == y0 + CeilDiv(v * graphHeight, maxVal)

\* drawGraph, lines 347-348 and 351-352:
\* int y = y0 + graphHeight - (v / maxVal) * graphHeight
YPixel(v, maxVal) == y0 + graphHeight - CeilDiv(v * graphHeight, maxVal)

\* a variant that divides by POINTS_PER_DAY - 1
XPixel_FullWidth(i) ==
  IF i = 0 THEN x0 ELSE x0 + (graphWidth * i) \div (POINTS_PER_DAY - 1)

\* drawGraph, lines 346 and 350: the abscissa of sample i (from 0)
XPixel(i) == IF i = 0 THEN x0 ELSE x0 + (graphWidth * i) \div POINTS_PER_DAY

\* drawGraph, lines 314-358: the scale and the vertices of the two curves
Curves(genData, consData, maxVal) ==
  [maxVal |-> maxVal,
   x |-> [i \in 1..POINTS_PER_DAY |-> XPixel(i - 1)],
   yGen |-> [i \in 1..POINTS_PER_DAY |-> YPixel(genData[i], maxVal)],
   yCons |-> [i \in 1..POINTS_PER_DAY |-> YPixel(consData[i], maxVal)]]

drawGraph(genData, consData) ==
  Curves(genData, consData, ScaleMax(genData, consData))

\* nothing is plotted
NoGraph == [maxVal |-> 0, x |-> <<>>, yGen |-> <<>>, yCons |-> <<>>]

(***************************************************************************)
(* The Processing sketch (src/unnamed/part_001)                            *)
(***************************************************************************)
\* float arrayMax(float[] arr): the loop from index i on
RECURSIVE ArrayMaxLoop(_, _, _)
ArrayMaxLoop(m, arr, i) ==
  IF i > Len(arr) THEN m
  ELSE ArrayMaxLoop(IF arr[i] > m THEN arr[i] ELSE m, arr, i + 1)

arrayMax(arr) == ArrayMaxLoop(arr[1], arr, 2)

\* float[] nice of roundUpToNiceValue
nice == <<10, 20, 25, 50, 100, 200, 250, 500, 1000, 2000, 5000>>

\* pow(10, floor(log(v)/log(10))) for v >= 1: the largest power of ten
\* that is at most v, found from b upwards
RECURSIVE FloorPow10(_, _)
FloorPow10(v, b) == IF b * 10 > v THEN b ELSE FloorPow10(v, b * 10)

\* a variant that compares with < instead of <=
roundUpToNiceValue_Strict(v) ==
  LET hits == {i \in 1..Len(nice) : v < nice[i]}
  IN  IF hits # {}
      THEN nice[CHOOSE i \in hits : \A j \in hits : i <= j]
      ELSE CeilDiv(v, FloorPow10(v, 1)) * FloorPow10(v, 1)

\* float roundUpToNiceValue(float v): the first entry of nice with
\* v <= nice[i], or else ceil(v/base)*base
roundUpToNiceValue(v) ==
  LET hits == {i \in 1..Len(nice) : v <= nice[i]}
  IN  IF hits # {}
      THEN nice[CHOOSE i \in hits : \A j \in hits : i <= j]
      ELSE CeilDiv(v, FloorPow10(v, 1)) * FloorPow10(v, 1)

\* float y = y0 + gh - (v/maxVal) * gh, as the fraction <<num, den>>
SketchY(v, maxVal) == <<(graphY + gh) * maxVal - v * gh, maxVal>>

\* float x = x0 + gw*i/(POINTS_PER_DAY-1), an integer division
SketchX(i) == graphX + (gw * i) \div (POINTS_PER_DAY - 1)

SketchCurves(genData, consData, maxVal) ==
  [maxVal |-> maxVal,
   x |-> [i \in 1..POINTS_PER_DAY |-> SketchX(i - 1)],
   yGen |-> [i \in 1..POINTS_PER_DAY |-> SketchY(genData[i], maxVal)],
   yCons |-> [i \in 1..POINTS_PER_DAY |-> SketchY(consData[i], maxVal)]]

\* drawGraph of the sketch: the scale and the vertices of the two curves
sketch_drawGraph(genData, consData) ==
  SketchCurves(genData, consData,
               roundUpToNiceValue(Max2(arrayMax(genData), arrayMax(consData))))

(***************************************************************************)
(* The text settings the TFT_eSPI object keeps between calls, and the      *)
(* drawString calls of the two render functions with the settings that are *)
(* in force when each is made.  The other draw calls (fillRect, drawRect,  *)
(* drawLine) take their colour as an argument.                             *)
(***************************************************************************)
\* tft.setTextColor(fg, bg)
setTextColor(t, fg, bg) == [t EXCEPT !.textcolor = <<fg, bg>>]

\* tft.setTextSize(n)
setTextSize(t, n) == [t EXCEPT !.textsize = n]

\* tft.setTextDatum(d)
setTextDatum(t, d) == [t EXCEPT !.datum = d]

\* tft.drawString of each of the strings, under the settings t
drawString(t, strings) ==
  [strings |-> strings, textsize |-> t.textsize, textcolor |-> t.textcolor,
   datum |-> t.datum]

\* setup, lines 145-146, on the text size the driver starts with
SetupText ==
  setTextColor(setTextDatum([textsize |-> 1, textcolor |-> <<"", "">>,
                             datum |-> ""], "MC_DATUM"),
               "TFT_WHITE", "TFT_BLACK")

\* showMessage, lines 273-274
TextAfterMessage(t) ==
  setTextColor(setTextDatum(t, "MC_DATUM"), "TFT_WHITE", "TFT_BLACK")

\* drawGraph, lines 330 and 342: the settings it leaves behind
TextAfterGraph(t) == setTextColor(t, "TFT_WHITE", "TFT_BLACK")

\* drawGraph, lines 327-344 and 359-365: hour labels, percent labels, legend
GraphStrings(t) ==
  LET labelled == setTextColor(t, "TFT_WHITE", "TFT_BLACK")
  IN  <<drawString(labelled, <<"00", "06", "12", "18", "24">>),
        drawString(labelled, <<"  0%", " 25%", " 50%", " 75%", "100%">>),
        drawString(labelled, <<"Generation", "Consumption">>)>>

\* a variant of drawNumbers without the setTextSize(1) of lines 407 and 423
TextAfterNumbers_SizeKept(t) ==
  setTextColor(setTextSize(t, 2), "TFT_LIGHTGREY", "TFT_BLACK")

\* drawNumbers, lines 378-427: the settings it leaves behind
TextAfterNumbers(t) ==
  setTextColor(setTextSize(t, 1), "TFT_LIGHTGREY", "TFT_BLACK")

\* drawNumbers, lines 378-429: the rows, the button text, the time stamp
NumbersStrings(t, numbers, upd) ==
  LET rows == setTextSize(setTextColor(t, "TFT_WHITE", "TFT_BLACK"), 2)
      button == setTextSize(setTextColor(setTextSize(rows, 1),
                                         "TFT_WHITE", "TFT_DARKGREY"), 2)
      stamp == setTextColor(setTextSize(button, 1),
                            "TFT_LIGHTGREY", "TFT_BLACK")
  IN  <<drawString(rows, <<"Battery:", numbers.battery,
                           "Generated:", numbers.generated,
                           "Consumed:", numbers.consumed>>),
        drawString(button, <<"Refresh">>),
        drawString(stamp, <<"Updated: " \o upd>>)>>

NoNumbers == [battery |-> "", generated |-> "", consumed |-> ""]

\* showMessage: the screen is cleared and shows msg only
MessageScreen(msg) ==
  [kind |-> "message", text |-> msg, store |-> InitialStore, updated |-> "",
   numbers |-> NoNumbers, strings |-> <<>>]

\* lines 254-257: fillScreen, drawGraph and drawNumbers with the outputs;
\* the screen keeps the curves handed to drawGraph (store), and Plotted
\* gives the vertices drawGraph makes of them; strings are the drawString
\* calls of both functions, made from the text settings t
DataScreen(st, upd, t) ==
  LET numbers == drawNumbers(st.batteryPercent, st.dailyGen, st.dailyCons)
  IN  [kind |-> "data", text |-> "", store |-> st, updated |-> upd,
       numbers |-> numbers,
       strings |-> GraphStrings(t)
                     \o NumbersStrings(TextAfterGraph(t), numbers, upd)]

\* the data view of st and upd is what the screen shows
Showing(st, upd) ==
  screen.kind = "data" /\ screen.store = st /\ screen.updated = upd

\* lines 254-257: the text settings after drawGraph and drawNumbers
TextAfterData(t) == TextAfterNumbers(TextAfterGraph(t))

Init ==
  /\ HAS_TOUCH \in {0, 1}
  /\ currentMode \in {MODE_ANKER_CLOUD, MODE_LOCAL_SMARTMETER}
  /\ secrets \in SecretsOf(currentMode)
  /\ clock = ToU32(BootMillis)
  /\ lastUpdate = Zero32
  /\ lastUpdateStr = "--:--:--"
  /\ pc = "loop"
  /\ now = Zero32
  /\ points = <<>>
  /\ forceRefresh = FALSE
  /\ batteryPercent = NAN
  /\ dailyGen = NAN
  /\ dailyCons = NAN
  /\ genCurve = ZeroCurve
  /\ consCurve = ZeroCurve
  /\ ok = FALSE
  /\ energy = NoResponse
  /\ fetchStarted = FALSE
  /\ transport = <<>>
  /\ screen \in {MessageScreen("Connected to WiFi"),
                 MessageScreen("WiFi connection failed")}
  /\ iter = 0
  /\ attempted = FALSE
  /\ inFlight = 0
  /\ lastGood = InitialStore
  /\ auth = NoAuth
  /\ nowT = 0
  /\ called = "none"
  /\ lastOutcome = "none"
  /\ generation = ZeroCurve
  /\ consumption = ZeroCurve
  /\ canvas = NoGraph
  /\ tft = SetupText
  /\ redrawn = FALSE
  /\ elapsed = ToU32(BootMillis)

(***************************************************************************)
(* Helpers of loop()                                                       *)
(***************************************************************************)
\* a variant that excludes the right and bottom edge of the button
InButton_ExclusiveEdges(p) ==
  LET px == ToInt16(p.y)
      py == ToInt16(PORTRAIT_HEIGHT - p.x)
  IN  /\ px >= REFRESH_BTN_X /\ px < REFRESH_BTN_X + REFRESH_BTN_W
      /\ py >= REFRESH_BTN_Y /\ py < REFRESH_BTN_Y + REFRESH_BTN_H

\* lines 228-231: the transformed point lies in the refresh button
InButton(p) ==
  LET px == ToInt16(p.y)
      py == ToInt16(PORTRAIT_HEIGHT - p.x)
  IN  /\ px >= REFRESH_BTN_X /\ px <= REFRESH_BTN_X + REFRESH_BTN_W
      /\ py >= REFRESH_BTN_Y /\ py <= REFRESH_BTN_Y + REFRESH_BTN_H

\* lines 224-236: the scan of the polled points
ScanPoints(pts) == \E i \in 1..Len(pts) : InButton(pts[i])

\* a variant that takes the interval as not elapsed when now < last
RefreshDue_NoWrap(n, last, force) ==
  \/ (Geq32(n, last) /\ Geq32(Sub32(n, last), ToU32(REFRESH_INTERVAL_MS)))
  \/ last = Zero32
  \/ force

\* a variant that compares with > instead of >=
RefreshDue_Strict(n, last, force) ==
  \/ Geq32(Sub32(n, last), ToU32(REFRESH_INTERVAL_MS + 1))
  \/ last = Zero32
  \/ force

\* a variant without the test for the first iteration
RefreshDue_NoFirstRun(n, last, force) ==
  \/ Geq32(Sub32(n, last), ToU32(REFRESH_INTERVAL_MS))
  \/ force

\* line 238: the refresh condition
RefreshDue(n, last, force) ==
  \/ Geq32(Sub32(n, last), ToU32(REFRESH_INTERVAL_MS))
  \/ last = Zero32
  \/ force

\* strftime(buf, sizeof(buf), "%H:%M:%S", gmtime_r(&nowT))
TwoDigits(n) == Digit(n \div 10) \o Digit(n % 10)

FormatTime(t) ==
  LET secs == t % 86400
  IN  TwoDigits(secs \div 3600) \o ":" \o TwoDigits((secs % 3600) \div 60)
        \o ":" \o TwoDigits(secs % 60)

\* a variant without the test for a synchronised clock
UpdatedTimestamp_NoSyncCheck(old, t) == FormatTime(t)

\* updateTimestamp(): the new value of lastUpdateStr
UpdatedTimestamp(old, t) ==
  IF t < EPOCH_VALID THEN old ELSE FormatTime(t)

\* lines 507-518 and 558-568: the curves after the copy loop
CurvesMatch(doc) ==
  /\ Len(doc.generation_curve) = POINTS_PER_DAY
  /\ Len(doc.consumption_curve) = POINTS_PER_DAY

\* a variant that copies the arrays whatever their sizes
FilledCurve_AnySize(old, arr, doc) == arr

\* a variant that tests the size of generation_curve only
FilledCurve_GenSizeOnly(old, arr, doc) ==
  IF Len(doc.generation_curve) = POINTS_PER_DAY
  THEN SubSeq(arr \o old, 1, POINTS_PER_DAY) ELSE old

\* a variant that copies each array of the right size on its own
FilledCurve_PerArray(old, arr, doc) ==
  IF Len(arr) = POINTS_PER_DAY THEN arr ELSE old

\* lines 507-518 and 558-568: one output vector after the call
FilledCurve(old, arr, doc) == IF CurvesMatch(doc) THEN arr ELSE old

(***************************************************************************)
(* loop(), lines 217-237: read millis() and poll the touch controller      *)
(***************************************************************************)
PollTouch ==
  /\ pc = "loop"
  /\ now' = clock
  /\ IF HAS_TOUCH = 1
     THEN \E pts \in TouchPolls :
            /\ points' = pts
            /\ forceRefresh' = ScanPoints(pts)
     ELSE /\ points' = <<>>
          /\ forceRefresh' = FALSE
  /\ fetchStarted' = FALSE
  /\ pc' = "polled"
  /\ UNCHANGED <<config, sketchVars, clock, lastUpdate, elapsed,
                 lastUpdateStr, outputs, ok, energy, transport, screen, tft,
                 redrawn, attempted, inFlight, lastGood, auth, nowT, called,
                 lastOutcome>>

\* one of the MaxIter iterations of loop() begins
LoopPoll ==
  /\ iter < MaxIter
  /\ iter' = iter + 1
  /\ PollTouch

\* line 238, condition false: nothing to do in this iteration
LoopSkip ==
  /\ pc = "polled"
  /\ ~RefreshDue(now, lastUpdate, forceRefresh)
  /\ pc' = "delay"
  /\ now' = Zero32 /\ points' = <<>> /\ forceRefresh' = FALSE
  /\ UNCHANGED <<config, sketchVars, clock, lastUpdate, elapsed,
                 lastUpdateStr, outputs, ok, energy, transport, screen, tft,
                 redrawn, iter, attempted, fetchStarted, inFlight, lastGood,
                 auth, nowT, called, lastOutcome>>

\* lines 239-245: the attempt is recorded and the outputs are initialised
BeginAttempt ==
  /\ lastUpdate' = now
  /\ elapsed' = Zero32
  /\ batteryPercent' = NAN
  /\ dailyGen' = NAN
  /\ dailyCons' = NAN
  /\ genCurve' = ZeroCurve
  /\ consCurve' = ZeroCurve
  /\ ok' = FALSE
  /\ attempted' = TRUE
  /\ fetchStarted' = TRUE
  /\ now' = Zero32 /\ points' = <<>> /\ forceRefresh' = FALSE

\* a variant in which a failed fetch stops the loop
FetchFailed_Halts ==
  /\ ok' = FALSE
  /\ screen' = MessageScreen("Data fetch error")
  /\ tft' = TextAfterMessage(tft)
  /\ redrawn' = FALSE
  /\ pc' = "halted"
  /\ lastOutcome' = "failed"
  /\ UNCHANGED <<lastUpdateStr, lastGood, nowT>>

\* a variant that leaves the screen as it is
FetchFailed_KeepsScreen ==
  /\ ok' = FALSE
  /\ screen' = screen
  /\ UNCHANGED <<tft, redrawn>>
  /\ pc' = "delay"
  /\ lastOutcome' = "failed"
  /\ UNCHANGED <<lastUpdateStr, lastGood, nowT>>

\* lines 258-261: the fetch returned false
FetchFailed ==
  /\ ok' = FALSE
  /\ screen' = MessageScreen("Data fetch error")
  /\ tft' = TextAfterMessage(tft)
  /\ redrawn' = FALSE
  /\ pc' = "delay"
  /\ lastOutcome' = "failed"
  /\ UNCHANGED <<lastUpdateStr, lastGood, nowT>>

\* lines 251-257: the fetch returned true with the outputs b, g, c, gc, cc
FetchSucceeded(b, g, c, gc, cc) ==
  /\ ok' = TRUE
  /\ nowT' \in EpochSamples
  /\ lastUpdateStr' = UpdatedTimestamp(lastUpdateStr, nowT')
  /\ lastOutcome' = "ok"
  /\ screen' = DataScreen(Store(b, g, c, gc, cc), lastUpdateStr', tft)
  /\ tft' = TextAfterData(tft)
  /\ redrawn' = Showing(Store(b, g, c, gc, cc), lastUpdateStr')
  /\ lastGood' = Store(b, g, c, gc, cc)
  /\ pc' = "delay"

\* a variant that calls fetchAnkerData whatever the mode
UsesAnkerCloud_Always(mode) == TRUE

\* line 246: currentMode == Mode::MODE_ANKER_CLOUD
UsesAnkerCloud(mode) == mode = MODE_ANKER_CLOUD

\* line 444: strlen(ANKER_AUTH_URL) == 0 || strlen(ANKER_ENERGY_URL) == 0
AnkerConfigMissing(s) == s.ANKER_AUTH_URL = "" \/ s.ANKER_ENERGY_URL = ""

\* a variant that tests the host only
SmartmeterConfigMissing_HostOnly(s) == s.SMARTMETER_HOST = ""

\* line 531: strlen(SMARTMETER_HOST) == 0 ||
\* strlen(SMARTMETER_ENERGY_ENDPOINT) == 0
SmartmeterConfigMissing(s) ==
  s.SMARTMETER_HOST = "" \/ s.SMARTMETER_ENERGY_ENDPOINT = ""

\* a variant that does not wait for the answer to the POST
LoopFetchAnker_Async ==
  /\ pc = "polled"
  /\ RefreshDue(now, lastUpdate, forceRefresh)
  /\ UsesAnkerCloud(currentMode)
  /\ called' = "fetchAnkerData"
  /\ BeginAttempt
  /\ IF AnkerConfigMissing(secrets)
     THEN /\ transport' = <<>>
          /\ inFlight' = inFlight
          /\ FetchFailed
     ELSE /\ transport' = <<"POST">>
          /\ inFlight' = inFlight + 1
          /\ pc' = "delay"
          /\ UNCHANGED <<screen, tft, redrawn, lastUpdateStr, lastGood, nowT,
                         lastOutcome>>
  /\ UNCHANGED <<config, sketchVars, clock, energy, iter, auth>>

\* a variant that keeps the access token of a successful call and then
\* goes to the energy GET without a POST
LoopFetchAnker_TokenKept ==
  /\ pc = "polled"
  /\ RefreshDue(now, lastUpdate, forceRefresh)
  /\ UsesAnkerCloud(currentMode)
  /\ called' = "fetchAnkerData"
  /\ BeginAttempt
  /\ IF AnkerConfigMissing(secrets)
     THEN /\ transport' = <<>>
          /\ inFlight' = inFlight
          /\ FetchFailed
     ELSE /\ transport' = IF lastOutcome = "ok" THEN <<"GET">>
                          ELSE <<"POST">>
          /\ inFlight' = inFlight + 1
          /\ pc' = IF lastOutcome = "ok" THEN "energy_get" ELSE "auth_post"
          /\ UNCHANGED <<screen, tft, redrawn, lastUpdateStr, lastGood, nowT,
                         lastOutcome>>
  /\ UNCHANGED <<config, sketchVars, clock, energy, iter, auth>>

\* lines 246-247 and 443-459: fetchAnkerData up to the authentication POST
LoopFetchAnker ==
  /\ pc = "polled"
  /\ RefreshDue(now, lastUpdate, forceRefresh)
  /\ UsesAnkerCloud(currentMode)
  /\ called' = "fetchAnkerData"
  /\ BeginAttempt
  /\ IF AnkerConfigMissing(secrets)
     THEN /\ transport' = <<>>
          /\ inFlight' = inFlight
          /\ FetchFailed
     ELSE /\ transport' = <<"POST">>
          /\ inFlight' = inFlight + 1
          /\ pc' = "auth_post"
          /\ UNCHANGED <<screen, tft, redrawn, lastUpdateStr, lastGood, nowT,
                         lastOutcome>>
  /\ UNCHANGED <<config, sketchVars, clock, energy, iter, auth>>

\* lines 248-249 and 531-541: fetchSmartmeterData up to the GET
LoopFetchSmartmeter ==
  /\ pc = "polled"
  /\ RefreshDue(now, lastUpdate, forceRefresh)
  /\ ~UsesAnkerCloud(currentMode)
  /\ called' = "fetchSmartmeterData"
  /\ BeginAttempt
  /\ IF SmartmeterConfigMissing(secrets)
     THEN /\ transport' = <<>>
          /\ inFlight' = inFlight
          /\ FetchFailed
     ELSE /\ transport' = <<"GET">>
          /\ inFlight' = inFlight + 1
          /\ pc' = "meter_get"
          /\ UNCHANGED <<screen, tft, redrawn, lastUpdateStr, lastGood, nowT,
                         lastOutcome>>
  /\ UNCHANGED <<config, sketchVars, clock, energy, iter, auth>>

\* a variant that does not look for the access token
AuthPostOk_NoTokenCheck(r) == r.code = HTTP_CODE_OK /\ r.wellformed

\* lines 460-480: the status is 200, the body parses and carries a token
AuthPostOk(r) == r.code = HTTP_CODE_OK /\ r.wellformed /\ r.hasToken

\* lines 459-483: the POST returns; on success the energy GET is issued
AuthPostReturns ==
  /\ pc = "auth_post"
  /\ \E r \in AuthResponses :
       /\ auth' = r
       /\ IF ~AuthPostOk(r)
          THEN /\ inFlight' = inFlight - 1
               /\ FetchFailed
               /\ UNCHANGED transport
          ELSE /\ transport' = Append(transport, "GET")
               /\ pc' = "energy_get"
               /\ UNCHANGED <<inFlight, ok, screen, tft, redrawn, lastUpdateStr, lastGood,
                              nowT, lastOutcome>>
  /\ UNCHANGED <<config, sketchVars, clock, lastUpdate, elapsed, pollVars, outputs,
                 energy, iter, attempted, fetchStarted, called>>

\* a variant that does not test the result of deserializeJson
EnergyGetOk_NoParseCheck(r) == r.code = HTTP_CODE_OK

\* lines 484-502: the status is 200 and the body parses
EnergyGetOk(r) == r.code = HTTP_CODE_OK /\ r.wellformed

\* lines 483-518: the energy GET of fetchAnkerData returns
EnergyGetReturns ==
  /\ pc = "energy_get"
  /\ inFlight' = inFlight - 1
  /\ \E r \in EnergyResponses :
       /\ energy' = r
       /\ IF ~EnergyGetOk(r)
          THEN /\ FetchFailed
               /\ UNCHANGED outputs
          ELSE /\ batteryPercent' = MemberOrNaN(r.doc.battery_percent)
               /\ dailyGen' = MemberOrNaN(r.doc.daily_generation)
               /\ dailyCons' = MemberOrNaN(r.doc.daily_consumption)
               /\ genCurve' =
                    FilledCurve(genCurve, r.doc.generation_curve, r.doc)
               /\ consCurve' =
                    FilledCurve(consCurve, r.doc.consumption_curve, r.doc)
               /\ FetchSucceeded(batteryPercent', dailyGen', dailyCons',
                                 genCurve', consCurve')
  /\ UNCHANGED <<config, sketchVars, clock, lastUpdate, elapsed, pollVars,
                 transport, iter, attempted, fetchStarted, auth, called>>

\* a variant that rejects a response whose curve arrays have the wrong size
MeterGetOk_StrictShape(r) ==
  r.code = HTTP_CODE_OK /\ r.wellformed /\ CurvesMatch(r.doc)

\* lines 542-554: the status is 200 and the body parses
MeterGetOk(r) == r.code = HTTP_CODE_OK /\ r.wellformed

\* lines 541-568: the GET of fetchSmartmeterData returns
MeterGetReturns ==
  /\ pc = "meter_get"
  /\ inFlight' = inFlight - 1
  /\ \E r \in EnergyResponses :
       /\ energy' = r
       /\ IF ~MeterGetOk(r)
          THEN /\ FetchFailed
               /\ UNCHANGED outputs
          ELSE /\ batteryPercent' = MemberOrNaN(r.doc.battery_percent)
               /\ dailyGen' = MemberOrNaN(r.doc.daily_generation)
               /\ dailyCons' = MemberOrNaN(r.doc.daily_consumption)
               /\ genCurve' =
                    FilledCurve(genCurve, r.doc.generation_curve, r.doc)
               /\ consCurve' =
                    FilledCurve(consCurve, r.doc.consumption_curve, r.doc)
               /\ FetchSucceeded(batteryPercent', dailyGen', dailyCons',
                                 genCurve', consCurve')
  /\ UNCHANGED <<config, sketchVars, clock, lastUpdate, elapsed, pollVars,
                 transport, iter, attempted, fetchStarted, auth, called>>

\* line 264: delay(100); the iteration has taken d milliseconds in all.
\* The locals of the calls made in this iteration (the answer to the POST,
\* nowT) are gone when loop() returns.
Delay(D) ==
  /\ pc = "delay"
  /\ \E d \in D : /\ clock' = Add32(clock, ToU32(d))
                  /\ elapsed' = AddExact(elapsed, ToU32(d))
  /\ pc' = "loop"
  /\ auth' = NoAuth /\ nowT' = 0
  /\ UNCHANGED <<config, sketchVars, lastUpdate, lastUpdateStr, pollVars,
                 outputs, ok, energy, transport, screen, tft, redrawn, iter,
                 attempted, fetchStarted, inFlight, lastGood, called,
                 lastOutcome>>

Next ==
  \/ LoopPoll
  \/ LoopSkip
  \/ LoopFetchAnker
  \/ LoopFetchSmartmeter
  \/ AuthPostReturns
  \/ EnergyGetReturns
  \/ MeterGetReturns
  \/ Delay(Durations)

Spec == Init /\ [][Next]_vars

(***************************************************************************)
(* The loop under fair scheduling.  The Arduino core calls loop() again    *)
(* whenever it returns, delay() returns, and every HTTP call is taken to   *)
(* return.  The iterations last 2^18 ms, 2^18 ms, 2^31 - 2^18 ms and       *)
(* 2^31 - 2^18 ms in turn, so that millis() runs through LiveClocks and    *)
(* is back at its first value after 2^32 ms.                               *)
(***************************************************************************)
LiveShort == 2^18
LiveLong == 2147483647 - (2^18 - 1)
LiveDurations == {LiveShort, LiveLong}

LiveClocks ==
  LET c0 == ToU32(BootMillis)
      c1 == Add32(c0, ToU32(LiveShort))
      c2 == Add32(c1, ToU32(LiveShort))
      c3 == Add32(c2, ToU32(LiveLong))
  IN  {c0, c1, c2, c3}

LivePoll == PollTouch /\ UNCHANGED iter

LiveDelay == Delay(LiveDurations) /\ clock' \in LiveClocks

LiveNext ==
  \/ LivePoll
  \/ LoopSkip
  \/ LoopFetchAnker
  \/ LoopFetchSmartmeter
  \/ AuthPostReturns
  \/ EnergyGetReturns
  \/ MeterGetReturns
  \/ LiveDelay

LiveSpec ==
  /\ Init
  /\ [][LiveNext]_vars
  /\ WF_vars(LivePoll)
  /\ WF_vars(LoopSkip)
  /\ WF_vars(LoopFetchAnker)
  /\ WF_vars(LoopFetchSmartmeter)
  /\ WF_vars(AuthPostReturns)
  /\ WF_vars(EnergyGetReturns)
  /\ WF_vars(MeterGetReturns)
  /\ WF_vars(LiveDelay)

(***************************************************************************)
(* The loop around the wrap of millis(): the iterations are short or take  *)
(* about half of the 2^32 ms period, so that attempts are made shortly     *)
(* before the wrap, and iterations begin shortly after it.                 *)
(***************************************************************************)
TimerDurations == {DELAY_MS, HalfWrap, HalfWrap - DELAY_MS}

TimerDelay == Delay(TimerDurations)

TimerNext ==
  \/ LoopPoll
  \/ LoopSkip
  \/ LoopFetchAnker
  \/ LoopFetchSmartmeter
  \/ AuthPostReturns
  \/ EnergyGetReturns
  \/ MeterGetReturns
  \/ TimerDelay

TimerSpec == Init /\ [][TimerNext]_vars

(***************************************************************************)
(* The two drawGraph functions on their own: the curves are drawn from     *)
(* GraphGenInputs and GraphConsInputs, the firmware redraws its data view  *)
(* with them and the sketch draws its frame with them.                     *)
(***************************************************************************)
GraphPeaks ==
  {0, 1, 9, 10, 11, 45, 50, 250, 4999, 5000, 5001, 7300, 10000, 12000}

\* a curve that rises to its peak at the last hour
Ramp(peak) == [i \in 1..POINTS_PER_DAY |-> (peak * i) \div POINTS_PER_DAY]

\* a curve with its peak at noon
Bump(peak) ==
  [i \in 1..POINTS_PER_DAY |-> IF i = 13 THEN peak ELSE peak \div 2]

Flat(level) == [i \in 1..POINTS_PER_DAY |-> level]

GraphGenInputs ==
  {Ramp(p) : p \in GraphPeaks} \cup {Bump(p) : p \in GraphPeaks}

GraphConsInputs == {Flat(c) : c \in {0, 5, 30, 50, 6000}}

GraphInit ==
  /\ HAS_TOUCH = 0
  /\ currentMode = MODE_ANKER_CLOUD
  /\ secrets \in {sec \in SecretsOf(currentMode) : ~AnkerConfigMissing(sec)}
  /\ clock = ToU32(BootMillis)
  /\ lastUpdate = Zero32
  /\ lastUpdateStr = "--:--:--"
  /\ pc = "loop"
  /\ now = Zero32
  /\ points = <<>>
  /\ forceRefresh = FALSE
  /\ batteryPercent = NAN
  /\ dailyGen = NAN
  /\ dailyCons = NAN
  /\ genCurve \in GraphGenInputs
  /\ consCurve \in GraphConsInputs
  /\ ok = FALSE
  /\ energy = NoResponse
  /\ fetchStarted = FALSE
  /\ transport = <<>>
  /\ screen = MessageScreen("Connected to WiFi")
  /\ iter = 0
  /\ attempted = FALSE
  /\ inFlight = 0
  /\ lastGood = InitialStore
  /\ auth = NoAuth
  /\ nowT = 0
  /\ called = "none"
  /\ lastOutcome = "none"
  /\ generation = genCurve
  /\ consumption = consCurve
  /\ canvas = NoGraph
  /\ tft = SetupText
  /\ redrawn = FALSE
  /\ elapsed = ToU32(BootMillis)

\* lines 254-257 of loop(): the data view is drawn with the outputs
Redraw ==
  /\ screen' = DataScreen(CurrentStore, lastUpdateStr, tft)
  /\ tft' = TextAfterData(tft)
  /\ redrawn' = Showing(CurrentStore, lastUpdateStr)
  /\ UNCHANGED <<config, sketchVars, clock, lastUpdate, elapsed, lastUpdateStr, pc,
                 pollVars, outputs, ok, energy, transport, iter, attempted,
                 fetchStarted, inFlight, lastGood, auth, nowT, called,
                 lastOutcome>>

\* draw() of the sketch: drawGraph(generation, consumption)
SketchDraw ==
  /\ canvas' = sketch_drawGraph(generation, consumption)
  /\ UNCHANGED <<config, generation, consumption, clock, lastUpdate, elapsed,
                 lastUpdateStr, pc, pollVars, outputs, ok, energy, transport,
                 screen, tft, redrawn, iter, attempted, fetchStarted,
                 inFlight, lastGood, auth, nowT, called, lastOutcome>>

GraphNext == Redraw \/ SketchDraw

GraphSpec == GraphInit /\ [][GraphNext]_vars

\* the vertices drawGraph makes of the curves of the data view
Plotted == drawGraph(screen.store.genCurve, screen.store.consCurve)

TypeOK ==
  /\ pc \in {"loop", "polled", "auth_post", "energy_get", "meter_get",
            "delay"}
  /\ HAS_TOUCH \in {0, 1}
  /\ lastUpdate \in (0..(W16 - 1)) \X (0..(W16 - 1))
  /\ clock \in (0..(W16 - 1)) \X (0..(W16 - 1))
  /\ Len(genCurve) = POINTS_PER_DAY /\ Len(consCurve) = POINTS_PER_DAY
  /\ tft.textsize \in {1, 2} /\ tft.datum = "MC_DATUM"
  /\ redrawn \in BOOLEAN
  /\ elapsed[1] \in Nat /\ elapsed[2] \in 0..(W16 - 1)
  /\ inFlight \in 0..2
  /\ iter \in 0..MaxIter

Fetching == pc \in {"auth_post", "energy_get", "meter_get"}

\* the fetch call of this iteration has returned
Returned == fetchStarted /\ pc = "delay"

\* the refresh interval has elapsed at the polled time (unsigned difference)
IntervalElapsed == Geq32(Sub32(now, lastUpdate), ToU32(REFRESH_INTERVAL_MS))

\* a polled point lies in the button rectangle, bounds included
TouchInButton ==
  \E i \in 1..Len(points) :
    /\ points[i].y \in REFRESH_BTN_X..(REFRESH_BTN_X + REFRESH_BTN_W)
    /\ (PORTRAIT_HEIGHT - points[i].x) \in
         REFRESH_BTN_Y..(REFRESH_BTN_Y + REFRESH_BTN_H)

(***************************************************************************)
(* C1: at most one fetch is in flight in every state, and while loop() is  *)
(* between fetches (polling, deciding, delaying) none is: a fetch call     *)
(* begins only after the previous one has returned.                        *)
(***************************************************************************)
C1_AtMostOneFetchInFlight ==
  /\ inFlight <= 1
  /\ (pc \in {"loop", "polled", "delay"} => inFlight = 0)
  /\ (Fetching => inFlight = 1)

\* a second fetch is in flight after an earlier one has returned
C1_Witness == inFlight = 1 /\ iter >= 2 /\ Fetching

C3_FirstIterationFetches ==
  [][pc = "polled" /\ iter = 1 =>
       /\ lastUpdate = Zero32
       /\ ~attempted
       /\ fetchStarted'
       /\ lastUpdate' = now]_vars

\* the first attempt is recorded at a millis() below the interval
C3_Witness ==
  /\ iter = 1 /\ fetchStarted
  /\ lastUpdate = ToU32(BootMillis)
  /\ BootMillis < REFRESH_INTERVAL_MS

(***************************************************************************)
(* C4: every attempt sets lastUpdate to its millis(), and an attempt that  *)
(* is not forced by a touch comes at least REFRESH_INTERVAL_MS after the   *)
(* attempt before it.                                                      *)
(***************************************************************************)
C4_AttemptsSpaced ==
  [][pc = "polled" /\ fetchStarted' =>
       /\ lastUpdate' = now
       /\ (attempted /\ ~forceRefresh => IntervalElapsed)]_vars

(***************************************************************************)
(* C5: a fetch that is in flight returns and the loop is idle again, and   *)
(* fetch attempts are started again and again, whatever their outcome.     *)
(***************************************************************************)
C5_AlwaysRetries ==
  /\ []<><<LoopFetchAnker \/ LoopFetchSmartmeter>>_vars
  /\ (Fetching ~> pc = "loop")
  /\ ((Returned /\ ~ok) ~> (pc = "polled" /\ IntervalElapsed))

\* a failed attempt is followed by an iteration in which the interval has
\* elapsed
C5_Witness ==
  /\ pc = "polled" /\ attempted /\ ~ok /\ IntervalElapsed
  /\ screen = MessageScreen("Data fetch error")

(***************************************************************************)
(* C6: with touch support, a polled point inside the button rectangle      *)
(* (bounds included) makes the same iteration start a fetch; when no       *)
(* polled point is inside, a fetch starts only for the timer or because    *)
(* lastUpdate is 0.                                                        *)
(***************************************************************************)
C6_TouchForcesFetch ==
  [][pc = "polled" /\ HAS_TOUCH = 1 =>
       /\ (TouchInButton => fetchStarted' /\ forceRefresh)
       /\ (~TouchInButton =>
             /\ ~forceRefresh
             /\ (fetchStarted' => IntervalElapsed \/ lastUpdate = Zero32))]_vars

\* a touch on the edge of the button, polled after a point outside it and
\* before the interval has elapsed
C6_Witness ==
  /\ pc = "polled" /\ HAS_TOUCH = 1
  /\ points = <<pOutT, pInMax>>
  /\ attempted /\ lastUpdate # Zero32 /\ ~IntervalElapsed

(***************************************************************************)
(* C7: after a fetch attempt that failed, the store held by the program is *)
(* the one of the most recent successful fetch (the initial store if there *)
(* was none).                                                              *)
(***************************************************************************)
C7_FailureKeepsStore ==
  Returned /\ ~ok => CurrentStore = lastGood

(***************************************************************************)
(* C8 as stated: a data view shows the most recent response as a whole,    *)
(* the three scalars and the two curves of that response, or the initial   *)
(* store as a whole.                                                       *)
(***************************************************************************)
ResponseStore(doc) ==
  Store(IF doc.battery_percent.present
          THEN <<doc.battery_percent.num>> ELSE <<>>,
        IF doc.daily_generation.present
          THEN <<doc.daily_generation.num>> ELSE <<>>,
        IF doc.daily_consumption.present
          THEN <<doc.daily_consumption.num>> ELSE <<>>,
        doc.generation_curve, doc.consumption_curve)

ShapeMismatch(doc) ==
  \/ Len(doc.generation_curve) # POINTS_PER_DAY
  \/ Len(doc.consumption_curve) # POINTS_PER_DAY

C9_MismatchKeepsPriorCurves ==
  [][Fetching /\ ok' /\ ShapeMismatch(energy'.doc) =>
       /\ screen'.store.batteryPercent = ResponseStore(energy'.doc).batteryPercent
       /\ screen'.store.dailyGen = ResponseStore(energy'.doc).dailyGen
       /\ screen'.store.dailyCons = ResponseStore(energy'.doc).dailyCons
       /\ screen'.store.genCurve = lastGood.genCurve
       /\ screen'.store.consCurve = lastGood.consCurve]_vars

(***************************************************************************)
(* C10: in both modes a fetch whose GET returns status 200 and a           *)
(* well-formed body with missing or wrong-length curve arrays returns      *)
(* true, the data view is drawn (not the error message), and it shows the  *)
(* scalars of the response.                                                *)
(***************************************************************************)
C10_ShapeMismatchNonFatal ==
  (/\ Returned /\ transport # <<>> /\ transport[Len(transport)] = "GET"
   /\ energy.code = HTTP_CODE_OK /\ energy.wellformed
   /\ ShapeMismatch(energy.doc))
  => /\ ok
     /\ screen.kind = "data"
     /\ screen.store.batteryPercent = ResponseStore(energy.doc).batteryPercent
     /\ screen.store.dailyGen = ResponseStore(energy.doc).dailyGen
     /\ screen.store.dailyCons = ResponseStore(energy.doc).dailyCons

\* the smart-meter GET has returned a response without curve arrays
C10_Witness ==
  /\ Returned /\ ok /\ currentMode = MODE_LOCAL_SMARTMETER
  /\ energy.code = HTTP_CODE_OK /\ energy.wellformed
  /\ energy.doc.generation_curve = <<>>
  /\ screen.kind = "data"
  /\ screen.store.dailyGen = <<DailyGenOf(2)>>

(***************************************************************************)
(* C11: when an endpoint string of the selected mode is empty (cloud: the  *)
(* authentication or the energy URL; local: the host or the endpoint       *)
(* path), the fetch returns false in the step in which it is called, and   *)
(* it makes no HTTP call: neither a POST nor a GET.                        *)
(***************************************************************************)
EndpointEmpty ==
  IF currentMode = MODE_ANKER_CLOUD
  THEN secrets.ANKER_AUTH_URL = "" \/ secrets.ANKER_ENERGY_URL = ""
  ELSE secrets.SMARTMETER_HOST = "" \/ secrets.SMARTMETER_ENERGY_ENDPOINT = ""

C11_ConfigMissingNoTransport ==
  EndpointEmpty =>
    /\ transport = <<>>
    /\ ~Fetching
    /\ ~ok
    /\ (attempted => lastOutcome = "failed")

\* a second attempt has failed with only the endpoint path left empty
C11_Witness ==
  /\ Returned /\ iter >= 2 /\ ~ok
  /\ currentMode = MODE_LOCAL_SMARTMETER
  /\ secrets.SMARTMETER_HOST # "" /\ secrets.SMARTMETER_ENERGY_ENDPOINT = ""
  /\ transport = <<>>

(***************************************************************************)
(* C12: in cloud mode the energy GET is issued only in the step in which   *)
(* the authentication POST of the same attempt returns with status 200 and *)
(* a well-formed body that carries an access token; when the POST returns  *)
(* with another status, a malformed body or no token, the attempt fails    *)
(* there and no GET is issued.                                             *)
(***************************************************************************)
AuthGranted(a) == a.code = 200 /\ a.wellformed /\ a.hasToken

GetIssued(t) == \E i \in 1..Len(t) : t[i] = "GET"

C12_EnergyGetOnlyAfterAuth ==
  [][currentMode = MODE_ANKER_CLOUD =>
       /\ (GetIssued(transport') /\ transport' # transport =>
             /\ pc = "auth_post" /\ transport = <<"POST">>
             /\ AuthGranted(auth')
             /\ transport' = <<"POST", "GET">>)
       /\ (pc = "auth_post" /\ ~AuthGranted(auth') =>
             /\ transport' = <<"POST">>
             /\ pc' = "delay" /\ ~ok' /\ lastOutcome' = "failed"
             /\ energy' = energy)]_vars

\* the GET is issued in an attempt that follows one that failed at the POST
C12_Witness ==
  /\ pc = "energy_get" /\ transport = <<"POST", "GET">>
  /\ AuthGranted(auth)
  /\ lastOutcome = "failed" /\ energy = NoResponse

(***************************************************************************)
(* C13: a fetch that meets one of the aborting failures (ConfigMissing: an *)
(* endpoint string is empty; AuthFailed: the POST does not grant a token;  *)
(* RequestFailed: the GET returns a status other than 200; ParseFailed:    *)
(* the body of the GET is malformed) returns false in either mode; the     *)
(* loop then shows the one message "Data fetch error" whatever the kind,   *)
(* draws no data view, and leaves lastUpdateStr as it was.                 *)
(***************************************************************************)
ConfigMissingStep == pc = "polled" /\ fetchStarted' /\ EndpointEmpty

AuthFailedStep == pc = "auth_post" /\ ~AuthGranted(auth')

RequestFailedStep ==
  pc \in {"energy_get", "meter_get"} /\ energy'.code # 200

ParseFailedStep ==
  pc \in {"energy_get", "meter_get"} /\ energy'.code = 200
    /\ ~energy'.wellformed

C13_FailuresShowOneMessage ==
  [][ConfigMissingStep \/ AuthFailedStep \/ RequestFailedStep
        \/ ParseFailedStep =>
       /\ pc' = "delay" /\ fetchStarted'
       /\ ~ok' /\ lastOutcome' = "failed"
       /\ screen'.kind = "message" /\ screen'.text = "Data fetch error"
       /\ screen'.numbers = [battery |-> "", generated |-> "", consumed |-> ""]
       /\ lastUpdateStr' = lastUpdateStr]_vars

\* a malformed body has been received after a fetch that set the timestamp
C13_Witness ==
  /\ Returned /\ ~ok
  /\ energy.code = 200 /\ ~energy.wellformed
  /\ transport = <<"POST", "GET">>
  /\ lastUpdateStr # "--:--:--"
  /\ screen.text = "Data fetch error"

(***************************************************************************)
(* C14: once a fetch attempt has returned, the screen shows the message    *)
(* "Data fetch error" exactly when the attempt that returned last failed,  *)
(* and the data view (graph, numbers, refresh button, timestamp) exactly   *)
(* when it succeeded; the view stays until the next attempt returns.       *)
(***************************************************************************)
C14_ScreenFollowsLastOutcome ==
  /\ (lastOutcome = "none" <=> ~attempted \/ (Fetching /\ iter = 1))
  /\ (Returned => (ok <=> lastOutcome = "ok"))
  /\ (lastOutcome # "none" =>
        /\ (screen.kind = "message" /\ screen.text = "Data fetch error")
             <=> lastOutcome = "failed"
        /\ screen.kind = "data" <=> lastOutcome = "ok"
        /\ (screen.kind = "data" => screen.updated = lastUpdateStr))

\* the error message has replaced a data view
C14_Witness ==
  /\ lastOutcome = "failed" /\ lastGood # InitialStore
  /\ screen.kind = "message" /\ screen.text = "Data fetch error"

(***************************************************************************)
(* C15: whatever subset of the three scalars is missing from a response    *)
(* with status 200 and a well-formed body, the fetch returns true and the  *)
(* data view is drawn; a missing scalar is held as NaN and its row shows   *)
(* "--" with the unit, a present scalar is held with the value received    *)
(* and its row shows that value.                                           *)
(***************************************************************************)
ExpectedPercent(n) ==
  CASE n = 78 -> " 78.0 %" [] n = 55 -> " 55.0 %" [] n = 150 -> "150.0 %"

ExpectedKWh(n) ==
  CASE n = 4 -> " 4.00 kWh" [] n = 3 -> " 3.00 kWh" [] n = 7 -> " 7.00 kWh"
    [] n = 9 -> " 9.00 kWh" [] n = -1 -> "-1.00 kWh" [] n = -2 -> "-2.00 kWh"

ScalarShown(member, held, shown, row, expected, dashes) ==
  IF member.present
  THEN held = <<member.num>> /\ shown = held /\ row = expected
  ELSE held = <<>> /\ shown = <<>> /\ row = dashes

C15_MissingScalarsShownAsDashes ==
  (/\ Returned /\ transport # <<>> /\ transport[Len(transport)] = "GET"
   /\ energy.code = 200 /\ energy.wellformed)
  => /\ ok
     /\ screen.kind = "data"
     /\ ScalarShown(energy.doc.battery_percent, batteryPercent,
                    screen.store.batteryPercent, screen.numbers.battery,
                    ExpectedPercent(energy.doc.battery_percent.num), "-- %")
     /\ ScalarShown(energy.doc.daily_generation, dailyGen,
                    screen.store.dailyGen, screen.numbers.generated,
                    ExpectedKWh(energy.doc.daily_generation.num), "-- kWh")
     /\ ScalarShown(energy.doc.daily_consumption, dailyCons,
                    screen.store.dailyCons, screen.numbers.consumed,
                    ExpectedKWh(energy.doc.daily_consumption.num), "-- kWh")

\* the response lacks battery_percent and daily_consumption only
C15_Witness ==
  /\ Returned /\ ok
  /\ ~energy.doc.battery_percent.present
  /\ energy.doc.daily_generation.present
  /\ ~energy.doc.daily_consumption.present
  /\ Len(energy.doc.generation_curve) = POINTS_PER_DAY
  /\ screen.numbers =
       [battery |-> "-- %", generated |-> " 4.00 kWh", consumed |-> "-- kWh"]

(***************************************************************************)
(* C16: lastUpdateStr is "--:--:--" at start and as long as updateTimestamp *)
(* has not run with a synchronised clock; it changes only in a step in     *)
(* which a fetch returns true while the clock is synchronised, and then to *)
(* the HH:MM:SS of that moment; a failed fetch and a successful fetch with *)
(* an unsynchronised clock leave it unchanged.                             *)
(***************************************************************************)
ExpectedClock(t) ==
  CASE t = 100000 -> "03:46:40" [] t = 186399 -> "03:46:39"

ClockSynced(t) == t >= 100000

SuccessStep == Fetching /\ ok'

C16_TimestampOnlyOnSyncedSuccess ==
  /\ lastUpdateStr = "--:--:--"
  /\ [](lastUpdateStr # "--:--:--" =>
          /\ lastGood # InitialStore
          /\ lastUpdateStr \in {ExpectedClock(100000), ExpectedClock(186399)})
  /\ [][/\ (SuccessStep /\ ClockSynced(nowT') =>
               lastUpdateStr' = ExpectedClock(nowT'))
        /\ (SuccessStep /\ ~ClockSynced(nowT') =>
               lastUpdateStr' = lastUpdateStr)
        /\ (~SuccessStep => lastUpdateStr' = lastUpdateStr)]_vars

\* a later fetch has succeeded with the clock synchronised
C16_Witness ==
  /\ Returned /\ ok /\ iter >= 2
  /\ nowT = 100000
  /\ lastUpdateStr = "03:46:40" /\ screen.updated = "03:46:40"

(***************************************************************************)
(* C17: currentMode never changes, and every fetch attempt calls exactly   *)
(* one fetch function, the one that currentMode selects: fetchAnkerData    *)
(* (which begins with a POST) in cloud mode, fetchSmartmeterData (which    *)
(* begins with a GET) in local mode.                                       *)
(***************************************************************************)
SelectedFetch ==
  IF currentMode = "MODE_ANKER_CLOUD" THEN "fetchAnkerData"
  ELSE "fetchSmartmeterData"

C17_ModeFixedAndSelectsFetch ==
  [][/\ currentMode' = currentMode
     /\ (pc = "polled" /\ fetchStarted' =>
           /\ called' = SelectedFetch
           /\ transport' \in
                IF called' = "fetchAnkerData" THEN {<<>>, <<"POST">>}
                ELSE {<<>>, <<"GET">>})
     /\ (called' # called => pc = "polled" /\ fetchStarted')
     /\ (pc' = "auth_post" => called' = "fetchAnkerData")
     /\ (pc' = "meter_get" => called' = "fetchSmartmeterData")]_vars

\* the third attempt in local mode is waiting for its GET
C17_Witness ==
  /\ currentMode = MODE_LOCAL_SMARTMETER /\ iter >= 3
  /\ pc = "meter_get" /\ called = "fetchSmartmeterData"
  /\ lastOutcome # "none"

(***************************************************************************)
(* C18 as stated: for non-negative series the value the graph is scaled to *)
(* is at least the largest sample of both series, and it is the smallest   *)
(* entry of the ladder 10, 20, 25, 50, 100, 200, 250, 500, 1000, 2000,     *)
(* 5000 that is at least that sample when there is one (45 gives 50).      *)
(***************************************************************************)
Ladder == {10, 20, 25, 50, 100, 200, 250, 500, 1000, 2000, 5000}

LargestSample(genData, consData) ==
  LET all == {genData[i] : i \in 1..Len(genData)}
               \cup {consData[i] : i \in 1..Len(consData)}
  IN  CHOOSE m \in all : \A v \in all : v <= m

FromLadder(axisMax, dataMax) ==
  /\ axisMax >= dataMax
  /\ ((\E a \in Ladder : a >= dataMax) =>
        /\ axisMax \in Ladder
        /\ \A a \in Ladder : a >= dataMax => axisMax <= a)

FirmwareDrawn == screen.kind = "data"

SketchDrawn == canvas.maxVal # 0

FirmwareMax == LargestSample(screen.store.genCurve, screen.store.consCurve)

SketchMax == LargestSample(generation, consumption)

C18_AxisMaxFromLadder ==
  /\ (FirmwareDrawn => FromLadder(Plotted.maxVal, FirmwareMax))
  /\ (SketchDrawn => FromLadder(canvas.maxVal, SketchMax))

(***************************************************************************)
(* C18 as amended: for non-negative series the value the graph is scaled   *)
(* to is at least the largest sample of both series in both programs; in   *)
(* the sketch it is the smallest ladder entry that is at least that sample *)
(* when there is one (45 gives 50); in the firmware it is the largest      *)
(* sample itself, or 1 when that is below 1 (45 gives 45).                 *)
(***************************************************************************)
C18_AxisMaxPerProgram ==
  /\ (FirmwareDrawn =>
        /\ Plotted.maxVal >= FirmwareMax
        /\ Plotted.maxVal = IF FirmwareMax < 1 THEN 1 ELSE FirmwareMax)
  /\ (SketchDrawn => FromLadder(canvas.maxVal, SketchMax))

\* both programs have drawn curves whose largest sample is 45
C18_Witness ==
  /\ FirmwareDrawn /\ SketchDrawn
  /\ FirmwareMax = 45 /\ SketchMax = 45
  /\ Plotted.maxVal = 45 /\ canvas.maxVal = 50

(***************************************************************************)
(* C19 as stated: when both series are all zero the graph is scaled to the *)
(* smallest ladder entry, 10; nothing is divided by zero, and every vertex *)
(* of both curves lies on the bottom edge of the frame.                    *)
(***************************************************************************)
AllZero(genData, consData) ==
  \A i \in 1..POINTS_PER_DAY : genData[i] = 0 /\ consData[i] = 0

FirmwareOnBottom ==
  \A i \in 1..POINTS_PER_DAY :
    Plotted.yGen[i] = 20 + 130 /\ Plotted.yCons[i] = 20 + 130

\* a fraction <<num, den>> equals the integer n
FracEq(f, n) == f[2] # 0 /\ f[1] = n * f[2]

FracGeq(f, n) == f[2] > 0 /\ f[1] >= n * f[2]

SketchOnBottom ==
  \A i \in 1..POINTS_PER_DAY :
    FracEq(canvas.yGen[i], 8 + 120) /\ FracEq(canvas.yCons[i], 8 + 120)

C19_AllZeroScalesToTen ==
  /\ (FirmwareDrawn /\ AllZero(screen.store.genCurve, screen.store.consCurve)
        => Plotted.maxVal = 10 /\ FirmwareOnBottom)
  /\ (SketchDrawn /\ AllZero(generation, consumption)
        => canvas.maxVal = 10 /\ SketchOnBottom)

(***************************************************************************)
(* C19 as amended: when both series are all zero the graph is scaled to    *)
(* 10, the smallest ladder entry, in the sketch and to 1 in the firmware;  *)
(* the divisor is not zero in either, and every vertex of both curves lies *)
(* on the bottom edge of the frame.                                        *)
(***************************************************************************)
C19_AllZeroOnBottomEdge ==
  /\ (FirmwareDrawn /\ AllZero(screen.store.genCurve, screen.store.consCurve)
        => Plotted.maxVal = 1 /\ FirmwareOnBottom)
  /\ (SketchDrawn /\ AllZero(generation, consumption)
        => canvas.maxVal = 10 /\ SketchOnBottom)
  /\ (FirmwareDrawn => Plotted.maxVal > 0)
  /\ (SketchDrawn => canvas.maxVal > 0)

\* both programs have drawn two all-zero curves
C19_Witness ==
  /\ FirmwareDrawn /\ SketchDrawn
  /\ AllZero(screen.store.genCurve, screen.store.consCurve)
  /\ AllZero(generation, consumption)
  /\ Plotted.yGen[1] = 150 /\ canvas.yGen[1] = <<1280, 10>>

(***************************************************************************)
(* C20 as stated: for non-negative series the value the graph is scaled to *)
(* is strictly greater than the largest sample, and the highest vertex     *)
(* lies strictly below the top of the frame (y > y0).                      *)
(***************************************************************************)
C20_StrictHeadroom ==
  /\ (FirmwareDrawn =>
        /\ Plotted.maxVal > FirmwareMax
        /\ \A i \in 1..POINTS_PER_DAY :
             Plotted.yGen[i] > 20 /\ Plotted.yCons[i] > 20)
  /\ (SketchDrawn =>
        /\ canvas.maxVal > SketchMax
        /\ \A i \in 1..POINTS_PER_DAY :
             /\ FracGeq(canvas.yGen[i], 8) /\ ~FracEq(canvas.yGen[i], 8)
             /\ FracGeq(canvas.yCons[i], 8) /\ ~FracEq(canvas.yCons[i], 8))

(***************************************************************************)
(* C20 as amended: for non-negative series the value the graph is scaled   *)
(* to is at least the largest sample, so no vertex lies above the top of   *)
(* the frame (y >= y0), but the headroom is not strict: in the sketch the  *)
(* highest vertex lies on the top (y = y0) exactly when the largest sample *)
(* equals the scale, which is so for every sample that is a ladder entry;  *)
(* in the firmware it lies on the top whenever the largest sample is at    *)
(* least 1.                                                                *)
(***************************************************************************)
FirmwareTouchesTop ==
  \E i \in 1..POINTS_PER_DAY : Plotted.yGen[i] = 20 \/ Plotted.yCons[i] = 20

SketchTouchesTop ==
  \E i \in 1..POINTS_PER_DAY :
    FracEq(canvas.yGen[i], 8) \/ FracEq(canvas.yCons[i], 8)

C20_HeadroomNotStrict ==
  /\ (FirmwareDrawn =>
        /\ Plotted.maxVal >= FirmwareMax
        /\ \A i \in 1..POINTS_PER_DAY :
             Plotted.yGen[i] >= 20 /\ Plotted.yCons[i] >= 20
        /\ FirmwareTouchesTop <=> FirmwareMax >= 1)
  /\ (SketchDrawn =>
        /\ canvas.maxVal >= SketchMax
        /\ \A i \in 1..POINTS_PER_DAY :
             FracGeq(canvas.yGen[i], 8) /\ FracGeq(canvas.yCons[i], 8)
        /\ SketchTouchesTop <=> canvas.maxVal = SketchMax
        /\ (SketchMax \in Ladder => canvas.maxVal = SketchMax))

\* the largest sample is the ladder entry 50 and both programs plot it on
\* the top of the frame
C20_Witness ==
  /\ FirmwareDrawn /\ SketchDrawn
  /\ FirmwareMax = 50 /\ SketchMax = 50
  /\ Plotted.maxVal = 50 /\ canvas.maxVal = 50
  /\ FirmwareTouchesTop /\ SketchTouchesTop

(***************************************************************************)
(* C21 as stated: sample 0 is drawn at x = x0, sample POINTS_PER_DAY - 1   *)
(* at x = x0 + graphWidth, and x does not decrease with the index.         *)
(***************************************************************************)
NonDecreasing(xs) == \A i \in 1..(Len(xs) - 1) : xs[i] <= xs[i + 1]

C21_SpansFullWidth ==
  /\ (FirmwareDrawn =>
        /\ Plotted.x[1] = 10
        /\ Plotted.x[24] = 10 + 300
        /\ NonDecreasing(Plotted.x))
  /\ (SketchDrawn =>
        /\ canvas.x[1] = 40
        /\ canvas.x[24] = 40 + 270
        /\ NonDecreasing(canvas.x))

(***************************************************************************)
(* C21 as amended: in both programs sample 0 is drawn at x = x0 and x does *)
(* not decrease with the index.  The sketch divides by POINTS_PER_DAY - 1, *)
(* so that sample POINTS_PER_DAY - 1 is drawn at x = x0 + graphWidth; the  *)
(* firmware divides by POINTS_PER_DAY, so that sample i lies on the grid   *)
(* line of hour i and the last sample is drawn at                          *)
(* x0 + graphWidth * (POINTS_PER_DAY - 1) / POINTS_PER_DAY = 297, one hour *)
(* short of the right edge.                                                *)
(***************************************************************************)
C21_SpansHoursOrWidth ==
  /\ (FirmwareDrawn =>
        /\ Plotted.x[1] = 10
        /\ Plotted.x[24] = 297
        /\ \A i \in 0..23 : Plotted.x[i + 1] = 10 + (300 * i) \div 24
        /\ NonDecreasing(Plotted.x))
  /\ (SketchDrawn =>
        /\ canvas.x[1] = 40
        /\ canvas.x[24] = 40 + 270
        /\ NonDecreasing(canvas.x))

\* both programs have drawn their curves
C21_Witness ==
  /\ FirmwareDrawn /\ SketchDrawn
  /\ Plotted.x[24] = 297 /\ canvas.x[24] = 310
  /\ Plotted.x[13] = 160 /\ canvas.x[13] = 180

(***************************************************************************)
(* C22: in a data view of non-negative samples the firmware draws sample v *)
(* at y = y0 + graphHeight - (v / axisMax) * graphHeight truncated to an   *)
(* integer, every y lies in y0 .. y0 + graphHeight, a larger sample is not *)
(* drawn lower than a smaller one of the same view, and both curves are    *)
(* scaled with one axisMax taken over both of them.                        *)
(***************************************************************************)
\* y is (20 + 130) - 130 * v / a truncated: y <= 150 - 130 v / a < y + 1
TruncatedOrdinate(y, v, a) ==
  /\ y * a <= 150 * a - 130 * v
  /\ 150 * a - 130 * v < (y + 1) * a

C22_OrdinateMapping ==
  FirmwareDrawn =>
    LET g == screen.store.genCurve
        c == screen.store.consCurve
        p == Plotted
        yG == p.yGen
        yC == p.yCons
        a == p.maxVal
        H == 1..POINTS_PER_DAY
    IN  /\ a = IF FirmwareMax < 1 THEN 1 ELSE FirmwareMax
        /\ \A i \in H :
             /\ TruncatedOrdinate(yG[i], g[i], a)
             /\ TruncatedOrdinate(yC[i], c[i], a)
             /\ yG[i] \in 20..150
             /\ yC[i] \in 20..150
        /\ \A i, j \in H :
             /\ (g[i] <= g[j] => yG[j] <= yG[i])
             /\ (g[i] <= c[j] => yC[j] <= yG[i])
             /\ (c[i] <= g[j] => yG[j] <= yC[i])
             /\ (c[i] <= c[j] => yC[j] <= yC[i])

\* a view whose ordinates are not whole before the truncation: the
\* consumption curve sets the scale and the generation curve rises to 45
C22_Witness ==
  /\ FirmwareDrawn
  /\ Plotted.maxVal = 50 /\ screen.store.consCurve[1] = 50
  /\ screen.store.genCurve[24] = 45 /\ Plotted.yGen[24] = 33
  /\ screen.store.genCurve[5] = 9 /\ Plotted.yGen[5] = 126

(***************************************************************************)
(* C23: every store drawn after a successful fetch is within the ranges of *)
(* the data model: all samples of both curves are >= 0, batteryPercent is  *)
(* unknown or within 0 .. 100, and dailyGen and dailyCons are unknown or   *)
(* >= 0.                                                                   *)
(***************************************************************************)
UnknownOrWithin(f, lo, hi) == isnan(f) \/ (f[1] >= lo /\ f[1] <= hi)

UnknownOrNonNegative(f) == isnan(f) \/ f[1] >= 0

C23_RenderedStoreInRange ==
  screen.kind = "data" =>
    /\ \A i \in 1..Len(screen.store.genCurve) : screen.store.genCurve[i] >= 0
    /\ \A i \in 1..Len(screen.store.consCurve) : screen.store.consCurve[i] >= 0
    /\ UnknownOrWithin(screen.store.batteryPercent, 0, 100)
    /\ UnknownOrNonNegative(screen.store.dailyGen)
    /\ UnknownOrNonNegative(screen.store.dailyCons)

(***************************************************************************)
(* C24: drawing the same store with the same time stamp twice in a row     *)
(* makes the same draw calls with the same arguments: the second data view *)
(* equals the first, its drawString calls are made under the same text     *)
(* settings, and every data view equals the one drawn from the settings    *)
(* that setup() leaves, so that no setting left by an earlier drawGraph,   *)
(* drawNumbers or showMessage changes it.  The lines and rectangles take   *)
(* all their arguments from the store (Plotted).                           *)
(***************************************************************************)
C24_RenderIdempotent ==
  /\ [](screen.kind = "data" =>
          screen = DataScreen(screen.store, screen.updated, SetupText))
  /\ [][/\ screen.kind = "data" /\ screen'.kind = "data"
         /\ screen'.store = screen.store
         /\ screen'.updated = screen.updated
         => /\ screen'.strings = screen.strings
            /\ screen'.numbers = screen.numbers
            /\ screen' = screen]_vars

\* the same store and time stamp have been drawn twice in a row, the second
\* time from the settings the first drawNumbers left
C24_Witness ==
  /\ redrawn
  /\ screen.kind = "data"
  /\ screen.store.genCurve # ZeroCurve
  /\ tft = TextAfterData(SetupText)
  /\ tft # SetupText

(***************************************************************************)
(* C25: what a fetch returns and writes to its outputs is determined by    *)
(* the configuration and by the responses received during that call: it is *)
(* the same whatever earlier fetches returned.  In cloud mode no token is  *)
(* kept: whenever the energy GET is in progress, the same call has made    *)
(* its own POST and has received an accepted answer to it.                 *)
(***************************************************************************)
\* the result of a call, from the configuration and its own responses
ExpectedOk(fn, s, a, e) ==
  IF fn = "fetchAnkerData"
  THEN ~AnkerConfigMissing(s) /\ AuthPostOk(a) /\ EnergyGetOk(e)
  ELSE ~SmartmeterConfigMissing(s) /\ MeterGetOk(e)

\* the outputs of a call that returned true on the body doc
ExpectedOutputs(doc) ==
  IF CurvesMatch(doc) THEN ResponseStore(doc)
  ELSE [ResponseStore(doc) EXCEPT !.genCurve = ZeroCurve,
                                  !.consCurve = ZeroCurve]

\* a step in which a fetch call returns
FetchReturns == pc # "delay" /\ pc' = "delay" /\ fetchStarted'

C25_FetchStateless ==
  /\ [](pc = "energy_get" =>
          transport = <<"POST", "GET">> /\ AuthPostOk(auth))
  /\ [][FetchReturns =>
         /\ ok' = ExpectedOk(called', secrets, auth', energy')
         /\ CurrentStore' = IF ok' THEN ExpectedOutputs(energy'.doc)
                            ELSE InitialStore]_vars

\* after a call that succeeded, a later cloud call has made its own POST,
\* got no token and returned false with the outputs untouched
C25_Witness ==
  /\ pc = "delay" /\ fetchStarted
  /\ lastGood # InitialStore
  /\ lastOutcome = "failed"
  /\ transport = <<"POST">>
  /\ auth.code = HTTP_CODE_OK /\ ~auth.hasToken
  /\ CurrentStore = InitialStore

(***************************************************************************)
(* C26: whenever curves are handed to drawGraph, both curves have exactly  *)
(* POINTS_PER_DAY (24) elements, whatever the lengths of the arrays in the *)
(* response.                                                               *)
(***************************************************************************)
C26_CurvesHaveDayLength ==
  /\ Len(genCurve) = 24 /\ Len(consCurve) = 24
  /\ (screen.kind = "data" =>
        /\ Len(screen.store.genCurve) = 24
        /\ Len(screen.store.consCurve) = 24
        /\ Len(lastGood.genCurve) = 24
        /\ Len(lastGood.consCurve) = 24)

\* a data view made from a response whose arrays have 25 elements each
C26_Witness ==
  /\ screen.kind = "data" /\ pc = "delay" /\ ok
  /\ Len(energy.doc.generation_curve) = 25
  /\ Len(energy.doc.consumption_curve) = 25
  /\ Len(screen.store.genCurve) = 24

(***************************************************************************)
(* C27: a fetch call that returns true overwrites both output vectors with *)
(* the received arrays when both arrays have POINTS_PER_DAY elements, and  *)
(* otherwise leaves both as they were when it was called; an array of the  *)
(* right length is not copied on its own.                                  *)
(***************************************************************************)
C27_CurvesTogetherOrNotAtAll ==
  [][SuccessStep =>
       LET doc == energy'.doc
       IN  IF /\ Len(doc.generation_curve) = 24
              /\ Len(doc.consumption_curve) = 24
           THEN /\ genCurve' = doc.generation_curve
                /\ consCurve' = doc.consumption_curve
           ELSE /\ genCurve' = genCurve
                /\ consCurve' = consCurve]_vars

\* a call returned true on a body whose generation_curve alone has 24
\* elements, none of them zero, and the generation output is still all zero
C27_Witness ==
  /\ pc = "delay" /\ ok /\ lastOutcome = "ok"
  /\ Len(energy.doc.generation_curve) = 24
  /\ Len(energy.doc.consumption_curve) = 23
  /\ energy.doc.generation_curve # ZeroCurve
  /\ genCurve = ZeroCurve /\ consCurve = ZeroCurve

(***************************************************************************)
(* C28: lastUpdate = 0 means that no fetch has been attempted yet: once a  *)
(* fetch has been attempted lastUpdate is not 0, so that a fetch which is  *)
(* started because lastUpdate = 0 is the first attempt of the run.         *)
(***************************************************************************)
C28_ZeroMeansNeverAttempted ==
  /\ [](attempted => lastUpdate # Zero32)
  /\ [][/\ pc = "polled" /\ lastUpdate = Zero32 /\ fetchStarted'
         => ~attempted]_vars

(***************************************************************************)
(* C29: the difference now - lastUpdate, taken modulo 2^32, equals the     *)
(* milliseconds that have really passed since the last attempt, also when  *)
(* millis() has wrapped since then.  So an iteration that follows an       *)
(* attempt starts a fetch whenever REFRESH_INTERVAL_MS or more have        *)
(* passed, and a fetch started by the interval clause alone (no touch in   *)
(* the button, lastUpdate not 0) is started only then.                     *)
(***************************************************************************)
IntervalPassed == Geq32(elapsed, ToU32(REFRESH_INTERVAL_MS))

\* millis() has wrapped since the attempt recorded in lastUpdate
WrappedSinceAttempt == attempted /\ ~Geq32(now, lastUpdate)

C29_IntervalAcrossWrap ==
  [][pc = "polled" /\ attempted =>
       /\ Sub32(now, lastUpdate) = elapsed
       /\ (IntervalPassed => fetchStarted')
       /\ (fetchStarted' /\ ~forceRefresh /\ lastUpdate # Zero32
             => IntervalPassed)]_vars

\* millis() has wrapped 100 ms after an attempt: now is below lastUpdate
\* and the interval has not passed
C29_Witness ==
  /\ pc = "polled" /\ WrappedSinceAttempt
  /\ lastUpdate # Zero32 /\ ~forceRefresh
  /\ now = Zero32
  /\ elapsed = ToU32(DELAY_MS)
  /\ ~IntervalPassed

====
